---- MODULE Spec2Model ----
(***************************************************************************)
(* Model of the image-normalisation scripts create_thumbnails.py and       *)
(* center_image_batch.py.                                                  *)
(*                                                                         *)
(* Three specifications share this module:                                 *)
(*   SpecPixels  the two pixel corrections (white patch, auto levels)      *)
(*   SpecCenter  the canvas-size histogram and the centering offsets       *)
(*   SpecBatch   repeated runs of check_and_fix_thumbnails over a folder   *)
(***************************************************************************)
EXTENDS Integers, Sequences, FiniteSets, TLC

VARIABLES
    \* SpecPixels
    img,         \* the image held by the pipeline: a sequence of <<r, g, b>> pixels
    prevImg,     \* the image the last correction was applied to
    lastOp,      \* "none" | "wb" | "levels": the correction applied last
    \* SpecCenter (center_image_batch.py)
    listing,     \* os.listdir(PHOTOS_DIR): a sequence of directory entries
    scanPos,     \* index of the next entry the histogram loop visits
    sizes,       \* the dict sizes, as its items in insertion order
    canvas,      \* the canvas size main() obtained, or None
    target,      \* the file named on the command line
    offset,      \* (x_offset, y_offset) handed to canvas.paste, or None
    cpc,         \* position in main(): "scan" | "center" | "done" | "failed"
    \* SpecBatch (create_thumbnails.py)
    orig,        \* photos/<file>: decodable?, size, pixels
    thumb,       \* photos/thumb/<file>: absent, undecodable or a size
    pos,         \* index of the next file of the run's loop (0: no run started)
    run,         \* number of runs of check_and_fix_thumbnails started
    counters,    \* processed / created / fixed / rotated of the current run
    report,      \* per file: the line the current run printed for it
    last,        \* what the latest loop iteration saw, decided and did
    called,      \* per file: create_thumbnail was invoked in the current run
    saved,       \* per file: the original was overwritten in the current run
    corrections, \* per file: times white balance + levels were written to it
    rotations,   \* per file: times a rotation was written to it
    runClean,    \* no create_thumbnail call of the current run has failed
    prevClean    \* the previous run finished with no failed create_thumbnail

pixelVars == <<img, prevImg, lastOp>>

centerVars == <<listing, scanPos, sizes, canvas, target, offset, cpc>>

batchVars == <<orig, thumb, pos, run, counters, report, last, called, saved,
               corrections, rotations, runClean, prevClean>>

vars == <<pixelVars, centerVars, batchVars>>

None == "None"

----------------------------------------------------------------------------
(* IEEE-754 binary64 arithmetic on the few shapes the scripts use.  A       *)
(* double is [m |-> bits, e |-> exponent], value = m * 2^e, with m a bit    *)
(* sequence (most significant bit first, no leading zero, at most          *)
(* MantissaBits bits); zero is the empty mantissa.                         *)

MantissaBits == 53

RECURSIVE NatToBits(_)
NatToBits(n) == IF n = 0 THEN <<>> ELSE Append(NatToBits(n \div 2), n % 2)

RECURSIVE BitsToNat(_)
BitsToNat(b) ==
    IF b = <<>> THEN 0
    ELSE 2 * BitsToNat(SubSeq(b, 1, Len(b) - 1)) + b[Len(b)]

Zeros(k) == [i \in 1..k |-> 0]

StripZeros(b) ==
    IF \A i \in 1..Len(b) : b[i] = 0 THEN <<>>
    ELSE LET f == CHOOSE j \in 1..Len(b) :
                      b[j] = 1 /\ \A k \in 1..(j - 1) : b[k] = 0
         IN  SubSeq(b, f, Len(b))

PadLeft(b, n) == Zeros(n - Len(b)) \o b

\* 2^k mod d by repeated squaring
RECURSIVE Pow2Mod(_, _)
Pow2Mod(k, d) ==
    IF k = 0 THEN 1 % d
    ELSE LET h == Pow2Mod(k \div 2, d)
         IN  (h * h * (IF k % 2 = 1 THEN 2 ELSE 1)) % d

LimbBits == 15

Limb == 2 ^ LimbBits

\* a bit sequence of at most 4 * LimbBits bits times a natural v < 2^16,
\* limb by limb with carries
MulBits(bits, v) ==
    LET p  == PadLeft(bits, 4 * LimbBits)
        l0 == BitsToNat(SubSeq(p, 3 * LimbBits + 1, 4 * LimbBits)) * v
        l1 == BitsToNat(SubSeq(p, 2 * LimbBits + 1, 3 * LimbBits)) * v + l0 \div Limb
        l2 == BitsToNat(SubSeq(p, LimbBits + 1, 2 * LimbBits)) * v + l1 \div Limb
        l3 == BitsToNat(SubSeq(p, 1, LimbBits)) * v + l2 \div Limb
    IN  StripZeros(NatToBits(l3) \o PadLeft(NatToBits(l2 % Limb), LimbBits)
                                 \o PadLeft(NatToBits(l1 % Limb), LimbBits)
                                 \o PadLeft(NatToBits(l0 % Limb), LimbBits))

\* fraction limbs the division produces before rounding
GuardLimbs == 5

GuardBits == GuardLimbs * LimbBits

\* limb k (k = 1 is the most significant) of the fraction r / d, for
\* 0 <= r < d < 2^16: long division, LimbBits quotient bits at a time
FractionLimb(r, d, k) ==
    (((r * Pow2Mod((k - 1) * LimbBits, d)) % d) * Limb) \div d

FractionBits(r, d) ==
    PadLeft(NatToBits(FractionLimb(r, d, 1)), LimbBits)
        \o PadLeft(NatToBits(FractionLimb(r, d, 2)), LimbBits)
        \o PadLeft(NatToBits(FractionLimb(r, d, 3)), LimbBits)
        \o PadLeft(NatToBits(FractionLimb(r, d, 4)), LimbBits)
        \o PadLeft(NatToBits(FractionLimb(r, d, 5)), LimbBits)

\* the remainder long division is left with after the fraction bits
FractionRest(r, d) == (r * Pow2Mod(GuardBits, d)) % d

\* a bit sequence plus one
IncBits(bits) ==
    LET L == Len(bits) IN
    IF \A i \in 1..L : bits[i] = 1 THEN <<1>> \o Zeros(L)
    ELSE LET j == CHOOSE j \in 1..L :
                      bits[j] = 0 /\ \A k \in (j + 1)..L : bits[k] = 1
         IN  [i \in 1..L |-> IF i < j THEN bits[i] ELSE IF i = j THEN 1 ELSE 0]

\* round-to-nearest, ties-to-even, of bits * 2^e (+ a non-zero tail below the
\* last bit when sticky) to MantissaBits significant bits
RoundToDouble(bits, sticky, e) ==
    LET L == Len(bits) IN
    IF L <= MantissaBits THEN [m |-> bits, e |-> e]
    ELSE LET keep   == SubSeq(bits, 1, MantissaBits)
             guard  == bits[MantissaBits + 1]
             tail   == sticky \/ \E i \in (MantissaBits + 2)..L : bits[i] = 1
             up     == guard = 1 /\ (tail \/ keep[MantissaBits] = 1)
             m1     == IF up THEN IncBits(keep) ELSE keep
             e1     == e + (L - MantissaBits)
         IN  IF Len(m1) > MantissaBits
             THEN [m |-> SubSeq(m1, 1, MantissaBits), e |-> e1 + 1]
             ELSE [m |-> m1, e |-> e1]

FloatZero == [m |-> <<>>, e |-> 0]

FloatOfNat(n) == [m |-> NatToBits(n), e |-> 0]

\* a / b in binary64, for naturals a >= 0, b > 0 that are exact doubles
FloatDiv(a, b) ==
    IF a = 0 THEN FloatZero
    ELSE LET q == NatToBits(a \div b) \o FractionBits(a % b, b)
         IN  RoundToDouble(StripZeros(q), FractionRest(a % b, b) # 0,
                           -GuardBits)

\* v * x in binary64, for a natural v that is an exact double
FloatMulNat(v, x) ==
    IF v = 0 \/ x.m = <<>> THEN FloatZero
    ELSE RoundToDouble(MulBits(x.m, v), FALSE, x.e)

\* floor of a non-negative double
FloatFloor(x) ==
    IF x.m = <<>> THEN 0
    ELSE IF x.e >= 0 THEN BitsToNat(x.m \o Zeros(x.e))
    ELSE IF Len(x.m) + x.e <= 0 THEN 0
    ELSE BitsToNat(SubSeq(x.m, 1, Len(x.m) + x.e))

ByteMax == 255

\* np.uint8(np.clip(x, 0, 255)) for a non-negative double x: the clip caps the
\* value at 255 and the cast drops the fraction
ClipToByte(x) ==
    LET f == FloatFloor(x) IN IF f >= ByteMax THEN ByteMax ELSE f

----------------------------------------------------------------------------
(* create_thumbnails.py: the two pixel corrections.  An image is a         *)
(* sequence of RGB pixels; channel c of pixel i is image[i][c].            *)

Channels == 1..3

Channel(image, c) == [i \in 1..Len(image) |-> image[i][c]]

SeqMax(s) == CHOOSE x \in {s[i] : i \in 1..Len(s)} :
                 \A i \in 1..Len(s) : s[i] <= x

SeqMin(s) == CHOOSE x \in {s[i] : i \in 1..Len(s)} :
                 \A i \in 1..Len(s) : x <= s[i]

\* scale_c = 255.0 / max_c if max_c > 0 else 1
WhitePatchScale(maxC) ==
    IF maxC > 0 THEN FloatDiv(ByteMax, maxC) ELSE FloatOfNat(1)

apply_white_patch_white_balance(image) ==
    LET scale == << WhitePatchScale(SeqMax(Channel(image, 1))),
                    WhitePatchScale(SeqMax(Channel(image, 2))),
                    WhitePatchScale(SeqMax(Channel(image, 3))) >>
    IN  [i \in 1..Len(image) |->
            [c \in Channels |-> ClipToByte(FloatMulNat(image[i][c], scale[c]))]]

\* a stretch that divides by the maximum instead of the range
LevelsSampleByMax(v, min_val, max_val) ==
    IF max_val > min_val
    THEN ClipToByte(FloatDiv((v - min_val) * ByteMax, max_val))
    ELSE v

\* one channel sample of apply_auto_levels
LevelsSample(v, min_val, max_val) ==
    IF max_val > min_val
    THEN ClipToByte(FloatDiv((v - min_val) * ByteMax, max_val - min_val))
    ELSE v

apply_auto_levels(image) ==
    LET min_val == << SeqMin(Channel(image, 1)), SeqMin(Channel(image, 2)),
                      SeqMin(Channel(image, 3)) >>
        max_val == << SeqMax(Channel(image, 1)), SeqMax(Channel(image, 2)),
                      SeqMax(Channel(image, 3)) >>
    IN  [i \in 1..Len(image) |->
            [c \in Channels |->
                LevelsSample(image[i][c], min_val[c], max_val[c])]]

\* the values left alone in a specification that does not use them
PixelsIdle ==
    /\ img = <<>>
    /\ prevImg = <<>>
    /\ lastOp = "none"

\* number of pixels of the images SpecPixels draws
NPix == 3

\* the pixel colours the images are drawn from
Colours == { <<0, 25, 10>>, <<0, 25, 100>>, <<21, 50, 255>>,
             <<105, 200, 100>>, <<255, 0, 30>>, <<7, 254, 1>> }

WhiteBalance ==
    /\ img' = apply_white_patch_white_balance(img)
    /\ prevImg' = img
    /\ lastOp' = "wb"
    /\ UNCHANGED <<centerVars, batchVars>>

AutoLevels ==
    /\ img' = apply_auto_levels(img)
    /\ prevImg' = img
    /\ lastOp' = "levels"
    /\ UNCHANGED <<centerVars, batchVars>>

----------------------------------------------------------------------------
(* center_image_batch.py                                                   *)

\* number of directory entries of PHOTOS_DIR at most
MaxFiles == 3

\* the image sizes found in PHOTOS_DIR
RefSizes == { <<800, 600>>, <<600, 800>>, <<1000, 800>> }

\* a directory entry: an image that decodes, a file with an image extension
\* that does not decode, an already centered output (*_centered.jpg), or a
\* file with another extension
Entries ==
    [kind : {"image"}, size : RefSizes]
        \cup { [kind |-> "corrupt", size |-> <<0, 0>>],
               [kind |-> "centered", size |-> <<600, 800>>],
               [kind |-> "other", size |-> <<0, 0>>] }

\* Image.open(img_path) succeeds
Decodes(e) == e.kind \in {"image", "centered"}

\* the sizes of the image named on the command line
TargetSizes == { <<500, 700>>, <<801, 1001>>, <<601, 900>> }

Targets == [exists : {TRUE}, size : TargetSizes]
               \cup { [exists |-> FALSE, size |-> <<0, 0>>] }

\* filename.endswith(('.jpg', '.jpeg', '.png')) and not
\* filename.endswith('_centered.jpg')
IsReference(e) == e.kind \in {"image", "corrupt"}

\* sizes[size] = sizes.get(size, 0) + 1 on a dict kept in insertion order
Tally(items, size) ==
    IF \E i \in 1..Len(items) : items[i].size = size
    THEN [i \in 1..Len(items) |->
             IF items[i].size = size
             THEN [items[i] EXCEPT !.n = @ + 1] ELSE items[i]]
    ELSE Append(items, [size |-> size, n |-> 1])

\* a max that keeps the last of the items with the highest count
MostCommonLast(items) ==
    LET i == CHOOSE i \in 1..Len(items) :
                 /\ \A j \in 1..(i - 1) : items[j].n <= items[i].n
                 /\ \A j \in (i + 1)..Len(items) : items[j].n < items[i].n
    IN  items[i].size

\* max(sizes.items(), key=lambda x: x[1])[0]: max keeps the first item whose
\* key no later item exceeds
MostCommon(items) ==
    LET i == CHOOSE i \in 1..Len(items) :
                 /\ \A j \in 1..(i - 1) : items[j].n < items[i].n
                 /\ \A j \in (i + 1)..Len(items) : items[j].n <= items[i].n
    IN  items[i].size

\* if most_common[0] > most_common[1]: swap
ToPortrait(size) == IF size[1] > size[2] THEN <<size[2], size[1]>> ELSE size

\* the quotient rounded toward zero
TruncDiv(a, b) == IF a >= 0 THEN a \div b ELSE -((-a) \div b)

\* Python's //: the quotient rounded toward minus infinity
FloorDiv(a, b) == a \div b

\* x_offset, y_offset of center_image_on_canvas
CenterOffset(canvas_size, target_size) ==
    << FloorDiv(canvas_size[1] - target_size[1], 2),
       FloorDiv(canvas_size[2] - target_size[2], 2) >>

CenterIdle ==
    /\ listing = <<>>
    /\ scanPos = 1
    /\ sizes = <<>>
    /\ canvas = None
    /\ target = [exists |-> FALSE, size |-> <<0, 0>>]
    /\ offset = None
    /\ cpc = "idle"

\* get_portrait_canvas_size: one iteration of the loop over os.listdir
ScanFile ==
    /\ cpc = "scan"
    /\ scanPos <= Len(listing)
    /\ LET e == listing[scanPos]
       IN  sizes' = IF IsReference(e) /\ Decodes(e)
                    THEN Tally(sizes, e.size) ELSE sizes
    /\ scanPos' = scanPos + 1
    /\ UNCHANGED <<listing, canvas, target, offset, cpc>>
    /\ UNCHANGED <<pixelVars, batchVars>>

\* get_portrait_canvas_size after the loop, and main()'s exit when it got None
PickCanvas ==
    /\ cpc = "scan"
    /\ scanPos > Len(listing)
    /\ IF sizes = <<>>
       THEN canvas' = None /\ cpc' = "failed"
       ELSE canvas' = ToPortrait(MostCommon(sizes)) /\ cpc' = "center"
    /\ UNCHANGED <<listing, scanPos, sizes, target, offset>>
    /\ UNCHANGED <<pixelVars, batchVars>>

\* center_image_on_canvas
CenterImage ==
    /\ cpc = "center"
    /\ IF ~target.exists
       THEN offset' = None /\ cpc' = "failed"
       ELSE offset' = CenterOffset(canvas, target.size) /\ cpc' = "done"
    /\ UNCHANGED <<listing, scanPos, sizes, canvas, target>>
    /\ UNCHANGED <<pixelVars, batchVars>>

----------------------------------------------------------------------------
(* create_thumbnails.py: check_and_fix_thumbnails and create_thumbnail     *)

\* sorted(original_images): the image files of photos/, in the loop's order
Files == << "a.jpg", "b.jpg" >>

FileSet == { Files[i] : i \in 1..Len(Files) }

\* runs of check_and_fix_thumbnails at most
MaxRuns == 2

RotateWidth == 4000

\* the sizes of the originals the folder starts with
OrigSizes == { <<4000, 3000>>, <<3000, 4000>>, <<4000, 4000>>, <<4, 20>> }

\* the pixel contents of the originals the folder starts with
OrigPixels == { << <<0, 25, 10>>, <<21, 50, 255>> >>,
                << <<0, 0, 0>>, <<255, 255, 255>> >> }

Undecodable == [ok |-> FALSE, size |-> <<0, 0>>, px |-> <<>>]

Originals ==
    [ok : {TRUE}, size : OrigSizes, px : OrigPixels] \cup {Undecodable}

\* the sizes of the thumbnails the folder starts with
ThumbSizes == { <<600, 800>>, <<601, 799>>, <<602, 800>>, <<1, 4>> }

Absent == [state |-> "absent", size |-> <<0, 0>>]

Corrupt == [state |-> "corrupt", size |-> <<0, 0>>]

Thumbs == [state : {"ok"}, size : ThumbSizes] \cup {Absent, Corrupt}

\* a rotation test that forgets the comparison with the height
needs_rotation_any_4000(size) == size[1] = RotateWidth

\* width == 4000 and width > height
needs_rotation(size) == size[1] = RotateWidth /\ size[1] > size[2]

\* a transpose that keeps the size
RotatedSameSize(size) == size

\* the size after img.transpose(Image.Transpose.ROTATE_270)
Rotated(size) == <<size[2], size[1]>>

\* the literal 0.2: the double nearest to 2/10
ScaleFactor == FloatDiv(2, 10)

\* int(axis * 0.2)
Scaled(axis) == FloatFloor(FloatMulNat(axis, ScaleFactor))

ScaledSize(size) == << Scaled(size[1]), Scaled(size[2]) >>

Abs(x) == IF x < 0 THEN -x ELSE x

\* a comparison without the tolerance
ExactSize(thumb_size, expected) == thumb_size = expected

\* abs(thumb_width - expected_thumb_width) <= 1 and
\* abs(thumb_height - expected_thumb_height) <= 1
WithinTolerance(thumb_size, expected) ==
    /\ Abs(thumb_size[1] - expected[1]) <= 1
    /\ Abs(thumb_size[2] - expected[2]) <= 1

\* a test that takes an unreadable thumbnail for a missing one
IsNewOrUnreadable(t) == t.state # "ok"

\* is_new_image = not os.path.exists(thumb_path)
IsNewImage(t) == t.state = "absent"

\* the branch of the if/elif chain an image takes: what the loop prints
Classify(o, t, expected) ==
    IF needs_rotation(o.size) THEN "rotate"
    ELSE IF IsNewImage(t) THEN "new"
    ELSE IF t.state = "ok"
         THEN IF WithinTolerance(t.size, expected) THEN "ok" ELSE "wrong"
         ELSE "thumb unreadable"

\* where a call of create_thumbnail can raise
Failures == { "none", "save original", "save original torn",
              "save thumbnail", "save thumbnail torn" }

\* create_thumbnail up to the resize: the image in memory after the rotation
\* and the corrections, and the thumbnail size computed from it.  The pixels
\* keep their values under rotation (the model carries the values, not
\* their positions).
ProcessedImage(o, apply_white_balance) ==
    LET rot   == needs_rotation(o.size)
        size1 == IF rot THEN Rotated(o.size) ELSE o.size
        px1   == IF apply_white_balance
                 THEN apply_auto_levels(apply_white_patch_white_balance(o.px))
                 ELSE o.px
    IN  [rot |-> rot,
         original_processing_done |-> rot \/ apply_white_balance,
         file |-> [ok |-> TRUE, size |-> size1, px |-> px1],
         new |-> ScaledSize(size1)]

\* create_thumbnail(input_path, output_path, apply_white_balance=...), given
\* its in-memory image im: the files it leaves and what it returns
create_thumbnail(o, t, apply_white_balance, im, fail) ==
    LET o1 == IF im.original_processing_done THEN im.file ELSE o
        failed(o2, t2, reached) ==
            [orig |-> o2, thumb |-> t2, success |-> FALSE, new |-> <<0, 0>>,
             target |-> IF reached THEN im.new ELSE None,
             rotated |-> o2 = im.file /\ im.rot,
             corrected |-> o2 = im.file /\ apply_white_balance,
             saved |-> o2 # o]
    IN  IF im.original_processing_done /\ fail = "save original"
        THEN failed(o, t, FALSE)
        ELSE IF im.original_processing_done /\ fail = "save original torn"
        THEN failed(Undecodable, t, FALSE)
        ELSE IF im.new[1] < 1 \/ im.new[2] < 1
        THEN \* img.resize raises on an empty target size
             failed(o1, t, TRUE)
        ELSE IF fail = "save thumbnail"
        THEN failed(o1, t, TRUE)
        ELSE IF fail = "save thumbnail torn"
        THEN \* a file that save created is removed again, one that it
             \* truncated stays
             failed(o1, IF t.state = "absent" THEN Absent ELSE Corrupt, TRUE)
        ELSE [orig |-> o1, thumb |-> [state |-> "ok", size |-> im.new],
              success |-> TRUE, new |-> im.new, target |-> im.new,
              rotated |-> im.rot, corrected |-> apply_white_balance,
              saved |-> im.original_processing_done]

NoStep ==
    [file |-> None, classified |-> FALSE, origBefore |-> Undecodable,
     thumbBefore |-> Absent, expected |-> <<0, 0>>, class |-> None,
     called |-> FALSE, apply_white_balance |-> FALSE, target |-> None,
     success |-> FALSE, rotated |-> FALSE, corrected |-> FALSE]

ZeroCounters == [processed |-> 0, created |-> 0, fixed |-> 0, rotated |-> 0]

BatchIdle ==
    /\ orig = [f \in FileSet |-> Undecodable]
    /\ thumb = [f \in FileSet |-> Absent]
    /\ pos = 0
    /\ run = 0
    /\ counters = ZeroCounters
    /\ report = [f \in FileSet |-> "pending"]
    /\ last = NoStep
    /\ called = [f \in FileSet |-> FALSE]
    /\ saved = [f \in FileSet |-> FALSE]
    /\ corrections = [f \in FileSet |-> 0]
    /\ rotations = [f \in FileSet |-> 0]
    /\ runClean = TRUE
    /\ prevClean = FALSE

\* check_and_fix_thumbnails up to its loop
StartRun ==
    /\ pos \in {0, Len(Files) + 1}
    /\ run < MaxRuns
    /\ run' = run + 1
    /\ pos' = 1
    /\ counters' = ZeroCounters
    /\ report' = [f \in FileSet |-> "pending"]
    /\ called' = [f \in FileSet |-> FALSE]
    /\ saved' = [f \in FileSet |-> FALSE]
    /\ last' = NoStep
    /\ prevClean' = (run >= 1 /\ runClean)
    /\ runClean' = TRUE
    /\ UNCHANGED <<orig, thumb, corrections, rotations>>
    /\ UNCHANGED <<pixelVars, centerVars>>

\* one iteration of the loop whose original does not open: continue
SkipFile ==
    /\ pos \in 1..Len(Files)
    /\ ~orig[Files[pos]].ok
    /\ report' = [report EXCEPT ![Files[pos]] = "skipped"]
    /\ last' = [NoStep EXCEPT !.file = Files[pos],
                              !.thumbBefore = thumb[Files[pos]]]
    /\ pos' = pos + 1
    /\ UNCHANGED <<orig, thumb, run, counters, called, saved, corrections,
                   rotations, runClean, prevClean>>
    /\ UNCHANGED <<pixelVars, centerVars>>

\* what the loop records when it does not call create_thumbnail
NotCalled(o, t) ==
    [orig |-> o, thumb |-> t, success |-> FALSE, new |-> <<0, 0>>,
     target |-> None, rotated |-> FALSE, corrected |-> FALSE, saved |-> FALSE]

\* the rest of an iteration once its decision d and the outcome res of its
\* create_thumbnail call (if any) are known
Record(f, o, t, d, res) ==
    /\ orig' = [orig EXCEPT ![f] = res.orig]
    /\ thumb' = [thumb EXCEPT ![f] = res.thumb]
    /\ counters' =
         [processed |-> counters.processed + 1,
          created   |-> counters.created + (IF d.class = "new" THEN 1 ELSE 0),
          fixed     |-> counters.fixed + (IF d.class = "wrong" THEN 1 ELSE 0),
          rotated   |-> counters.rotated
                          + (IF d.class = "rotate" THEN 1 ELSE 0)]
    /\ report' = [report EXCEPT ![f] = d.class]
    /\ called' = [called EXCEPT ![f] = d.needs_creation]
    /\ saved' = [saved EXCEPT ![f] = res.saved]
    /\ corrections' = [corrections EXCEPT
                         ![f] = @ + (IF res.corrected THEN 1 ELSE 0)]
    /\ rotations' = [rotations EXCEPT
                       ![f] = @ + (IF res.rotated THEN 1 ELSE 0)]
    /\ runClean' = (runClean /\ (d.needs_creation => res.success))
    /\ last' = [file |-> f, classified |-> TRUE,
                origBefore |-> o, thumbBefore |-> t,
                expected |-> d.expected, class |-> d.class,
                called |-> d.needs_creation,
                apply_white_balance |-> d.needs_creation /\ d.is_new_image,
                target |-> res.target, success |-> res.success,
                rotated |-> res.rotated, corrected |-> res.corrected]

\* the decision of one iteration: lines 182-223
Decide(o, t) ==
    LET expected == ScaledSize(o.size)
        class    == Classify(o, t, expected)
    IN  [needs_rotate |-> needs_rotation(o.size),
         is_new_image |-> IsNewImage(t),
         expected |-> expected,
         class |-> class,
         needs_creation |-> class # "ok"]

\* one iteration of the loop on an original that opens
ProcessFile ==
    /\ pos \in 1..Len(Files)
    /\ orig[Files[pos]].ok
    /\ LET f == Files[pos]
           o == orig[f]
           t == thumb[f]
       IN  \E d \in {Decide(o, t)} :
             IF d.needs_creation
             THEN \E im \in {ProcessedImage(o, d.is_new_image)} :
                  \E fail \in Failures :
                  \E res \in {create_thumbnail(o, t, d.is_new_image, im, fail)} :
                      Record(f, o, t, d, res)
             ELSE Record(f, o, t, d, NotCalled(o, t))
    /\ pos' = pos + 1
    /\ UNCHANGED <<run, prevClean>>
    /\ UNCHANGED <<pixelVars, centerVars>>

----------------------------------------------------------------------------
(* The specifications                                                      *)

InitPixels ==
    /\ img \in [1..NPix -> Colours]
    /\ prevImg = img
    /\ lastOp = "none"
    /\ CenterIdle
    /\ BatchIdle

NextPixels == WhiteBalance \/ AutoLevels

SpecPixels == InitPixels /\ [][NextPixels]_vars

RECURSIVE SeqsUpTo(_, _)
SeqsUpTo(S, n) ==
    IF n = 0 THEN { <<>> }
    ELSE SeqsUpTo(S, n - 1) \cup [1..n -> S]

InitCenter ==
    /\ listing \in SeqsUpTo(Entries, MaxFiles)
    /\ scanPos = 1
    /\ sizes = <<>>
    /\ canvas = None
    /\ target \in Targets
    /\ offset = None
    /\ cpc = "scan"
    /\ PixelsIdle
    /\ BatchIdle

NextCenter == ScanFile \/ PickCanvas \/ CenterImage

SpecCenter == InitCenter /\ [][NextCenter]_vars

InitBatch ==
    /\ orig \in [FileSet -> Originals]
    /\ thumb \in [FileSet -> Thumbs]
    /\ pos = 0
    /\ run = 0
    /\ counters = ZeroCounters
    /\ report = [f \in FileSet |-> "pending"]
    /\ last = NoStep
    /\ called = [f \in FileSet |-> FALSE]
    /\ saved = [f \in FileSet |-> FALSE]
    /\ corrections = [f \in FileSet |-> 0]
    /\ rotations = [f \in FileSet |-> 0]
    /\ runClean = TRUE
    /\ prevClean = FALSE
    /\ PixelsIdle
    /\ CenterIdle

NextBatch == StartRun \/ SkipFile \/ ProcessFile

SpecBatch == InitBatch /\ [][NextBatch]_vars

----------------------------------------------------------------------------
(* Properties of the pixel corrections (SpecPixels)                        *)

IsUniform(image, c) == SeqMax(Channel(image, c)) = SeqMin(Channel(image, c))

\* C6: applying apply_auto_levels to the result of apply_auto_levels changes
\* nothing: after one pass every channel that was not uniform has minimum 0
\* and maximum 255, and every channel that was uniform is as it was.
C6_AutoLevelsIdempotent ==
    lastOp = "levels" =>
        /\ apply_auto_levels(img) = img
        /\ \A c \in Channels :
              IF IsUniform(prevImg, c)
              THEN Channel(img, c) = Channel(prevImg, c)
              ELSE /\ SeqMin(Channel(img, c)) = 0
                   /\ SeqMax(Channel(img, c)) = 255

\* a first pass that moved samples, on an image with a uniform channel and a
\* channel that did not already span 0..255
C6_Witness ==
    /\ lastOp = "levels"
    /\ img # prevImg
    /\ \E c \in Channels : IsUniform(prevImg, c)
    /\ \E c \in Channels :
          /\ ~IsUniform(prevImg, c)
          /\ SeqMin(Channel(prevImg, c)) > 0
          /\ SeqMax(Channel(prevImg, c)) < 255

\* C7: after apply_white_patch_white_balance every sample v of a channel
\* whose maximum maxC is positive is floor(min(v * 255 / maxC, 255)), so the
\* channel's maximum is 255; a channel whose maximum is 0 is unchanged.
C7_WhitePatchExact ==
    lastOp = "wb" =>
        \A c \in Channels :
            LET maxC == SeqMax(Channel(prevImg, c))
            IN  IF maxC > 0
                THEN /\ \A i \in 1..Len(img) :
                           img[i][c] = (prevImg[i][c] * 255) \div maxC
                     /\ SeqMax(Channel(img, c)) = 255
                ELSE Channel(img, c) = Channel(prevImg, c)

----------------------------------------------------------------------------
(* Properties of the centering script (SpecCenter)                         *)

\* the sizes of the entries the histogram counts, in listing order
Decoded == SelectSeq(listing, LAMBDA e : e.kind = "image")

Occurrences(size) ==
    Cardinality({ i \in 1..Len(Decoded) : Decoded[i].size = size })

FirstSeen(size) ==
    CHOOSE i \in 1..Len(Decoded) :
        /\ Decoded[i].size = size
        /\ \A j \in 1..(i - 1) : Decoded[j].size # size

\* the size with the highest count, the first encountered among ties
Mode ==
    CHOOSE s \in { Decoded[i].size : i \in 1..Len(Decoded) } :
        \A u \in { Decoded[i].size : i \in 1..Len(Decoded) } :
            \/ Occurrences(s) > Occurrences(u)
            \/ Occurrences(s) = Occurrences(u) /\ FirstSeen(s) <= FirstSeen(u)

C8_OffsetTruncates ==
    cpc = "done" =>
        offset = << TruncDiv(canvas[1] - target.size[1], 2),
                    TruncDiv(canvas[2] - target.size[2], 2) >>

\* C8 (amended): the paste offset is the difference of the sizes halved and
\* rounded toward minus infinity, on each axis: it equals the truncated
\* quotient when the source fits the canvas on that axis, and is one less
\* when the source exceeds the canvas by an odd number of pixels; a 500x700
\* source on an 800x1000 canvas is placed at (150, 150).
C8_OffsetFloors ==
    cpc = "done" =>
        /\ \A a \in 1..2 :
              LET d == canvas[a] - target.size[a]
              IN  /\ 2 * offset[a] <= d
                  /\ d <= 2 * offset[a] + 1
                  /\ d >= 0 => offset[a] = TruncDiv(d, 2)
                  /\ (d < 0 /\ d % 2 = 1) => offset[a] = TruncDiv(d, 2) - 1
        /\ (canvas = <<800, 1000>> /\ target.size = <<500, 700>>)
              => offset = <<150, 150>>

\* a source one pixel larger than the canvas on both axes has been pasted
C8_Witness ==
    /\ cpc = "done"
    /\ canvas = <<800, 1000>>
    /\ target.size = <<801, 1001>>
    /\ offset = <<-1, -1>>

----------------------------------------------------------------------------
(* Properties of the thumbnail batch (SpecBatch)                           *)

\* floor(axis * 0.2) in exact arithmetic
FloorFifth(axis) == (2 * axis) \div 10

FloorScaled(size) == << FloorFifth(size[1]), FloorFifth(size[2]) >>

OffByMoreThanOne(thumb_size, expected) ==
    \/ thumb_size[1] - expected[1] > 1
    \/ expected[1] - thumb_size[1] > 1
    \/ thumb_size[2] - expected[2] > 1
    \/ expected[2] - thumb_size[2] > 1

Landscape4000(size) == size[1] = 4000 /\ size[1] > size[2]

\* C1 (as stated): for a readable original, create_thumbnail is invoked iff
\* no thumbnail file exists, or the original needs rotation, or the existing
\* thumbnail's size is off by more than one pixel on some axis.
C1_InvokedIffThreeConditions ==
    last.classified =>
        ( last.called <=>
            \/ last.thumbBefore.state = "absent"
            \/ Landscape4000(last.origBefore.size)
            \/ /\ last.thumbBefore.state = "ok"
               /\ OffByMoreThanOne(last.thumbBefore.size,
                                   FloorScaled(last.origBefore.size)) )

\* C1 (amended): for a readable original, create_thumbnail is invoked iff no
\* thumbnail file exists, or the original needs rotation, or the existing
\* thumbnail cannot be decoded, or its size is off by more than one pixel on
\* some axis; a decodable thumbnail within one pixel on both axes of an
\* original that needs no rotation is not regenerated.
C1_InvokedIffFourConditions ==
    last.classified =>
        ( last.called <=>
            \/ last.thumbBefore.state = "absent"
            \/ Landscape4000(last.origBefore.size)
            \/ last.thumbBefore.state = "corrupt"
            \/ /\ last.thumbBefore.state = "ok"
               /\ OffByMoreThanOne(last.thumbBefore.size,
                                   FloorScaled(last.origBefore.size)) )

\* a thumbnail one pixel off on both axes was left alone
C1_Witness ==
    /\ last.classified
    /\ ~last.called
    /\ last.origBefore.size = <<3000, 4000>>
    /\ last.thumbBefore.size = <<601, 799>>

\* C2: white balance and auto levels are applied only to an original that
\* has no thumbnail file when its iteration starts; the pixels of an original
\* that has one are left as they are, also when the thumbnail is regenerated.
C2_CorrectionOnlyWithoutThumbnail ==
    last.classified =>
        /\ (last.apply_white_balance \/ last.corrected)
              => last.thumbBefore.state = "absent"
        /\ (last.thumbBefore.state # "absent" /\ orig[last.file].ok)
              => orig[last.file].px = last.origBefore.px

\* a thumbnail regenerated for a rotated original whose pixels the
\* corrections would have changed
C2_Witness ==
    /\ last.classified
    /\ last.called
    /\ last.success
    /\ last.rotated
    /\ last.thumbBefore.state = "ok"
    /\ orig[last.file].px
          # apply_auto_levels(apply_white_patch_white_balance(last.origBefore.px))

\* C3 (as stated): the run after a run in which every create_thumbnail call
\* succeeded calls create_thumbnail for no image, overwrites no original and
\* classifies every image as "thumbnail OK".
C3_NextRunAllOK ==
    (prevClean /\ pos = Len(Files) + 1) =>
        \A f \in FileSet : ~called[f] /\ ~saved[f] /\ report[f] = "ok"

\* C3 (amended): the run after a run in which every create_thumbnail call
\* succeeded calls create_thumbnail for no image, overwrites no original and
\* classifies every image whose original can be decoded as "thumbnail OK";
\* an original that cannot be decoded is skipped without a classification.
C3_NextRunSkipsProcessed ==
    prevClean =>
        /\ \A f \in FileSet :
              /\ ~called[f]
              /\ ~saved[f]
              /\ report[f] \in {"pending", IF orig[f].ok THEN "ok" ELSE "skipped"}
        /\ pos = Len(Files) + 1 => \A f \in FileSet : report[f] # "pending"

\* the second run has finished and found an image OK that the first run
\* rotated and corrected
C3_Witness ==
    /\ prevClean
    /\ pos = Len(Files) + 1
    /\ \E f \in FileSet :
          corrections[f] = 1 /\ rotations[f] = 1 /\ report[f] = "ok"

\* C4: an original is rotated exactly when its width is 4000 and exceeds its
\* height; no file is rotated more than once, a rotated file never needs
\* rotation again, and an original with height >= width or width # 4000
\* keeps its size.
C4_RotatedOnceWhenLandscape4000 ==
    /\ \A f \in FileSet :
          /\ rotations[f] <= 1
          /\ (rotations[f] = 1 /\ orig[f].ok) => ~Landscape4000(orig[f].size)
    /\ last.classified =>
          LET before == last.origBefore.size
              after  == orig[last.file]
          IN  /\ last.rotated =>
                    /\ Landscape4000(before)
                    /\ after.size = <<before[2], before[1]>>
              /\ (Landscape4000(before) /\ last.success) => last.rotated
              /\ (~Landscape4000(before) /\ after.ok) => after.size = before

\* a later run has finished and left a rotated original alone
C4_Witness ==
    /\ run = 2
    /\ pos = Len(Files) + 1
    /\ \E f \in FileSet :
          rotations[f] = 1 /\ report[f] = "ok" /\ orig[f].size = <<3000, 4000>>

\* C9: for every original the expected thumbnail size and the resize target
\* are (floor(width * 0.2), floor(height * 0.2)) and both components are
\* at least 1.
C9_SizesFloorAndPositive ==
    last.classified =>
        /\ last.expected = FloorScaled(last.origBefore.size)
        /\ last.expected[1] >= 1 /\ last.expected[2] >= 1
        /\ last.target # None =>
              /\ last.target = FloorScaled(IF Landscape4000(last.origBefore.size)
                                           THEN << last.origBefore.size[2],
                                                   last.origBefore.size[1] >>
                                           ELSE last.origBefore.size)
              /\ last.target[1] >= 1 /\ last.target[2] >= 1

\* C10: over any sequence of runs, failed ones included, the white balance +
\* auto levels correction is written to an original file at most once.
C10_CorrectedAtMostOnce ==
    \A f \in FileSet : corrections[f] <= 1

====
